---- MODULE Spec2Model ----
(***************************************************************************)
(* Fridge Tetris Master (src/app.py): one FridgeTetrisMaster instance, the *)
(* Gradio handler fridge_master_interface and the programmatic entry       *)
(* organize_fridge (src/example_usage.py), serving one request at a time.  *)
(*                                                                         *)
(* Values.  A Python str is a sequence of string pieces (an f-string is    *)
(* the concatenation of its pieces, an int is formatted in decimal), a     *)
(* bytes object a sequence of 0..255, a base64 str a sequence of alphabet  *)
(* indices 0..63 with B64Pad for "=".  Optional values carry a `none`      *)
(* field.  An image is a record [kind, fmt, px]: kind "pil" with PIL mode  *)
(* fmt and flattened samples px, kind "ndarray" with dtype fmt, kind       *)
(* "path" (a str naming a file whose decoded content is fmt/px, fmt        *)
(* "missing" when it cannot be opened), kind "None", and kind "falsy" for  *)
(* a non-None value that is false in a boolean context.                    *)
(***************************************************************************)
EXTENDS Integers, Sequences, FiniteSets, TLC

VARIABLES
    VLLM_AVAILABLE,     \* module flag, src/app.py:22-27
    QWEN_AVAILABLE,     \* module flag, src/app.py:15-20
    OLLAMA_AVAILABLE,   \* module flag, src/app.py:30-35
    use_ollama,         \* self.use_ollama
    llm,                \* self.llm: "None" or "LLM"
    base_prompt,        \* self.base_prompt
    pc,                 \* position of the request being served
    entry,              \* "ui" (fridge_master_interface) or "api" (organize_fridge)
    current_fridge,     \* request inputs
    new_groceries,
    mode,
    current_fridge_b64, \* locals of organize_fridge
    new_groceries_b64,
    messages,           \* the messages list assembled by the transport
    temperature,        \* sampling temperature handed to the model for the request
    status_code,        \* response.status_code of the POST, 0 when none
    parsed,             \* response.json() was called
    log,                \* steps of the request, in order
    result,             \* what organize_fridge returned
    ui_result,          \* what fridge_master_interface returned
    outcome,            \* the branch the request ended in
    served              \* requests completed

vars == <<VLLM_AVAILABLE, QWEN_AVAILABLE, OLLAMA_AVAILABLE, use_ollama, llm,
          base_prompt, pc, entry, current_fridge, new_groceries, mode,
          current_fridge_b64, new_groceries_b64, messages, temperature,
          status_code, parsed, log, result, ui_result, outcome, served>>

\* Requests served before the model stops accepting new ones.
MaxRequests == 2

----------------------------------------------------------------------------
\* Images

NoneImage == [kind |-> "None", fmt |-> "", px |-> <<>>]

PilL == [kind |-> "pil", fmt |-> "L", px |-> <<0, 255>>]

PathRGB == [kind |-> "path", fmt |-> "RGB", px |-> <<255, 128, 0>>]

ArrInt32 == [kind |-> "ndarray", fmt |-> "int32", px |-> <<70000>>]

PilF == [kind |-> "pil", fmt |-> "F", px |-> <<1>>]

PathMissing == [kind |-> "path", fmt |-> "missing", px |-> <<>>]

\* What a caller can hand in as current_fridge / new_groceries.
InputImages == {NoneImage, PilL, PathRGB, ArrInt32, PilF, PathMissing}

\* What outputs[0].outputs[0].image can be when the attribute exists.
Annotated == [kind |-> "pil", fmt |-> "RGB", px |-> <<1, 2, 3>>]

FalsyImage == [kind |-> "falsy", fmt |-> "", px |-> <<>>]

\* Python truth value of an object (None and empty values are false).
Truthy(x) == x.kind \notin {"None", "falsy"}

IsNone(x) == x.kind = "None"

----------------------------------------------------------------------------
\* PNG and base64 (the library calls of image_to_base64)

PngSignature == <<137, 80, 78, 71, 13, 10, 26, 10>>

B64Pad == 64

\* Image.open(path) / the image itself / Image.fromarray(array):
\* [ok, fmt, px], ok FALSE when the call raises.
OpenImage(image) ==
    IF image.kind = "path"
    THEN IF image.fmt = "missing"
         THEN [ok |-> FALSE, fmt |-> "", px |-> <<>>]
         ELSE [ok |-> TRUE, fmt |-> image.fmt, px |-> image.px]
    ELSE IF image.kind = "pil"
    THEN [ok |-> TRUE, fmt |-> image.fmt, px |-> image.px]
    ELSE IF image.fmt = "uint8"
    THEN [ok |-> TRUE, fmt |-> "L", px |-> image.px]
    ELSE IF image.fmt = "int32"
    THEN [ok |-> TRUE, fmt |-> "I", px |-> image.px]
    ELSE [ok |-> FALSE, fmt |-> "", px |-> <<>>]

\* A 32-bit sample written to a 16-bit PNG sample is clipped to 0..65535.
Clip16(v) == IF v <= 0 THEN 0 ELSE IF v > 65535 THEN 65535 ELSE v

RECURSIVE Samples16(_)
Samples16(px) ==
    IF px = <<>> THEN <<>>
    ELSE <<Clip16(Head(px)) \div 256, Clip16(Head(px)) % 256>> \o Samples16(Tail(px))

\* img.save(buffered, format="PNG"); buffered.getvalue().
\* The stream is the signature, a header (pixel count, bit depth, colour
\* type) and the samples; PNG's lossless compression and checksums are left
\* out.  Mode "I" is written as 16-bit greyscale; a mode PNG cannot hold
\* makes save raise.
PngSave(img) ==
    IF img.fmt = "L"
    THEN [ok |-> TRUE, data |-> PngSignature \o <<Len(img.px), 8, 0>> \o img.px]
    ELSE IF img.fmt = "RGB"
    THEN [ok |-> TRUE, data |-> PngSignature \o <<Len(img.px) \div 3, 8, 2>> \o img.px]
    ELSE IF img.fmt = "I"
    THEN [ok |-> TRUE, data |-> PngSignature \o <<Len(img.px), 16, 0>> \o Samples16(img.px)]
    ELSE [ok |-> FALSE, data |-> <<>>]

RECURSIVE B64Encode(_)
\* base64.b64encode(bytes).decode()
B64Encode(bytes) ==
    IF Len(bytes) = 0 THEN <<>>
    ELSE IF Len(bytes) = 1
    THEN LET n == bytes[1] * 65536
         IN  <<n \div 262144, (n \div 4096) % 64, B64Pad, B64Pad>>
    ELSE IF Len(bytes) = 2
    THEN LET n == bytes[1] * 65536 + bytes[2] * 256
         IN  <<n \div 262144, (n \div 4096) % 64, (n \div 64) % 64, B64Pad>>
    ELSE LET n == bytes[1] * 65536 + bytes[2] * 256 + bytes[3]
         IN  <<n \div 262144, (n \div 4096) % 64, (n \div 64) % 64, n % 64>>
             \o B64Encode(SubSeq(bytes, 4, Len(bytes)))

NoneStr == [none |-> TRUE, chars |-> <<>>]

\* FridgeTetrisMaster.image_to_base64
image_to_base64(image) ==
    IF IsNone(image) THEN NoneStr
    ELSE LET img == OpenImage(image)
         IN  IF ~img.ok THEN NoneStr
             ELSE LET png == PngSave(img)
                  IN  IF ~png.ok THEN NoneStr
                      ELSE [none |-> FALSE, chars |-> B64Encode(png.data)]

----------------------------------------------------------------------------
\* The reader's side of the round trip: base64 decoding and PNG reading.

RECURSIVE B64Decode(_)
\* base64.b64decode(str)
B64Decode(chars) ==
    IF Len(chars) < 4 THEN <<>>
    ELSE LET a == chars[1]
             b == chars[2]
             c == IF chars[3] = B64Pad THEN 0 ELSE chars[3]
             d == IF chars[4] = B64Pad THEN 0 ELSE chars[4]
             n == a * 262144 + b * 4096 + c * 64 + d
             three == <<n \div 65536, (n \div 256) % 256, n % 256>>
             got == IF chars[3] = B64Pad THEN SubSeq(three, 1, 1)
                    ELSE IF chars[4] = B64Pad THEN SubSeq(three, 1, 2)
                    ELSE three
         IN  got \o B64Decode(SubSeq(chars, 5, Len(chars)))

RECURSIVE Join16(_)
Join16(bytes) ==
    IF Len(bytes) < 2 THEN <<>>
    ELSE <<bytes[1] * 256 + bytes[2]>> \o Join16(SubSeq(bytes, 3, Len(bytes)))

\* Image.open(BytesIO(bytes)) of a PNG stream: the samples it holds.
PngLoad(bytes) ==
    LET depth == bytes[Len(PngSignature) + 2]
        body == SubSeq(bytes, Len(PngSignature) + 4, Len(bytes))
    IN  IF depth = 16 THEN Join16(body) ELSE body

----------------------------------------------------------------------------
\* Strings

Str(parts) == [none |-> FALSE, parts |-> parts]

NoneText == [none |-> TRUE, parts |-> <<>>]

DigitStr == <<"0", "1", "2", "3", "4", "5", "6", "7", "8", "9">>

RECURSIVE FormatInt(_)
\* str(n) of a non-negative int, as the f-string at src/app.py:130 formats it
FormatInt(n) ==
    IF n < 10 THEN <<DigitStr[n + 1]>>
    ELSE FormatInt(n \div 10) \o <<DigitStr[(n % 10) + 1]>>

DefaultPrompt ==
    "You are Fridge Tetris Master. Analyze the fridge and groceries, then provide optimal packing instructions."

\* Content of prompt.txt when the file exists.
FilePrompt == "<prompt.txt>"

NormalInstruction == "Normal mode: maximum efficiency and cold-chain logic"

ChaosInstruction ==
    "Chaos mode: intentionally terrible but technically possible packing with evil commentary"

\* Modes a caller of organize_fridge can pass; the Radio offers the first two.
Modes == {"Normal", "Chaos", "chaos"}

RadioModes == {"Normal", "Chaos"}

----------------------------------------------------------------------------
\* Results

Result(text, image) == [text |-> text, image |-> image]

NoResult == Result(NoneText, NoneImage)

----------------------------------------------------------------------------
\* FridgeTetrisMaster.__init__

\* self.use_ollama after construction with argument use_ollama, when LLM(...)
\* succeeds (load_ok) or raises.
InitUseOllama(arg, vllm_available, load_ok) ==
    IF ~arg /\ vllm_available
    THEN IF load_ok THEN arg ELSE TRUE
    ELSE arg

\* self.llm after construction.
InitLlm(arg, vllm_available, load_ok) ==
    IF ~arg /\ vllm_available /\ load_ok THEN "LLM" ELSE "None"

InitBasePrompt(prompt_exists) ==
    IF prompt_exists THEN FilePrompt ELSE DefaultPrompt

----------------------------------------------------------------------------
\* FridgeTetrisMaster.call_ollama

OllamaFullPrompt(base, m) ==
    <<base, "\n\nMode: ", m, "\n",
      IF m = "Normal" THEN NormalInstruction ELSE ChaosInstruction>>

OllamaMessages(base, fridge_b64, groceries_b64, m) ==
    << [role |-> "user",
        content |-> OllamaFullPrompt(base, m),
        images |-> <<fridge_b64, groceries_b64>>] >>

\* Bodies the endpoint can answer with: not JSON at all, or a JSON object
\* whose "message" key is absent, null or an object, whose "content" key is
\* absent, null or a string.
Bodies ==
    { [json |-> FALSE, message |-> "absent", content |-> "absent"],
      [json |-> TRUE,  message |-> "absent", content |-> "absent"],
      [json |-> TRUE,  message |-> "null",   content |-> "absent"],
      [json |-> TRUE,  message |-> "dict",   content |-> "absent"],
      [json |-> TRUE,  message |-> "dict",   content |-> "null"],
      [json |-> TRUE,  message |-> "dict",   content |-> "str"] }

StatusCodes == {200, 404, 500}

RemoteErrors == {"ConnectionError", "ReadTimeout"}

\* The text a model produced.
Advice == Str(<<"<advice>">>)

\* result.get("message", {}).get("content", "No response from model") on the
\* parsed body; raises when response.json() does or when "message" is null.
OllamaParse(body) ==
    IF ~body.json
    THEN [raised |-> TRUE, error |-> "JSONDecodeError", text |-> NoneText]
    ELSE IF body.message = "null"
    THEN [raised |-> TRUE, error |-> "'NoneType' object has no attribute 'get'",
          text |-> NoneText]
    ELSE IF body.message = "absent" \/ body.content = "absent"
    THEN [raised |-> FALSE, error |-> "", text |-> Str(<<"No response from model">>)]
    ELSE IF body.content = "null"
    THEN [raised |-> FALSE, error |-> "", text |-> NoneText]
    ELSE [raised |-> FALSE, error |-> "", text |-> Advice]

OllamaStatusText(code) ==
    Str(<<"Error: Ollama API returned status ">> \o FormatInt(code))

\* Lines 125-133 without the status check: every response is parsed.
OllamaResponse_NoStatusCheck(code, body) ==
    LET p == OllamaParse(body)
    IN  IF p.raised
        THEN [res |-> Result(Str(<<"Error calling Ollama: ", p.error>>), NoneImage),
              parsed |-> TRUE, outcome |-> "exception"]
        ELSE [res |-> Result(p.text, NoneImage),
              parsed |-> TRUE, outcome |-> IF code = 200 THEN "ok" ELSE "status"]

\* Lines 125-133: what call_ollama returns for a response, and whether
\* response.json() was called.
OllamaResponse(code, body) ==
    IF code = 200
    THEN LET p == OllamaParse(body)
         IN  IF p.raised
             THEN [res |-> Result(Str(<<"Error calling Ollama: ", p.error>>), NoneImage),
                   parsed |-> TRUE, outcome |-> "exception"]
             ELSE [res |-> Result(p.text, NoneImage),
                   parsed |-> TRUE, outcome |-> "ok"]
    ELSE [res |-> Result(OllamaStatusText(code), NoneImage),
          parsed |-> FALSE, outcome |-> "status"]

OllamaRaised(e) == Result(Str(<<"Error calling Ollama: ", e>>), NoneImage)

OllamaUnavailable ==
    Result(Str(<<"Error: Ollama not available. Install requests library.">>), NoneImage)

----------------------------------------------------------------------------
\* FridgeTetrisMaster.call_vllm

\* Line 142 testing for "Chaos" instead of "Normal".
VllmFullPrompt_ChaosTest(base, m) ==
    <<base, "\n\nMode: ", m, "\n",
      IF m = "Chaos" THEN ChaosInstruction ELSE NormalInstruction>>

VllmFullPrompt(base, m) ==
    <<base, "\n\nMode: ", m, "\n",
      IF m = "Normal" THEN NormalInstruction ELSE ChaosInstruction>>

NoUrl == [scheme |-> "", b64 |-> NoneStr]

VllmMessages(base, fridge_b64, groceries_b64, m) ==
    << [role |-> "user",
        content |->
          << [type |-> "image",
              image |-> [scheme |-> "data:image/png;base64,", b64 |-> fridge_b64],
              text |-> <<>>],
             [type |-> "image",
              image |-> [scheme |-> "data:image/png;base64,", b64 |-> groceries_b64],
              text |-> <<>>],
             [type |-> "text", image |-> NoUrl, text |-> VllmFullPrompt(base, m)] >>] >>

\* SamplingParams(temperature=...)
VllmTemperature(m) == IF m = "Normal" THEN "0.7" ELSE "0.9"

\* What llm.chat can hand back: no outputs, a request output without
\* completions, or a completion with text whose `image` attribute is
\* absent, None, a false value or an image.
ChatOutputs ==
    { [n |-> 0, completions |-> 0, has_image |-> FALSE, image |-> NoneImage],
      [n |-> 1, completions |-> 0, has_image |-> FALSE, image |-> NoneImage],
      [n |-> 1, completions |-> 1, has_image |-> FALSE, image |-> NoneImage],
      [n |-> 1, completions |-> 1, has_image |-> TRUE,  image |-> NoneImage],
      [n |-> 1, completions |-> 1, has_image |-> TRUE,  image |-> FalsyImage],
      [n |-> 1, completions |-> 1, has_image |-> TRUE,  image |-> Annotated] }

VllmRaised(e) == Result(Str(<<"Error calling vLLM: ", e>>), NoneImage)

\* Lines 167-175.
VllmResponse(outputs) ==
    IF outputs.n > 0
    THEN IF outputs.completions = 0
         THEN [res |-> VllmRaised("list index out of range"), outcome |-> "exception"]
         ELSE [res |-> Result(Advice,
                              IF outputs.has_image THEN outputs.image ELSE NoneImage),
               outcome |-> "ok"]
    ELSE [res |-> Result(Str(<<"Error: No response from model">>), NoneImage),
          outcome |-> "empty"]

VllmNotLoaded == Result(Str(<<"Error: vLLM model not loaded">>), NoneImage)

----------------------------------------------------------------------------
\* FridgeTetrisMaster.organize_fridge and fridge_master_interface

\* Line 196 with `and` for `or`: one encoded image is enough to go on.
BothEncoded_Either(b1, b2) == ~(b1.none /\ b2.none)

\* Line 196, negated: the request goes on to a transport.
BothEncoded(b1, b2) == ~(b1.none \/ b2.none)

CouldNotProcess ==
    Result(Str(<<"Error: Could not process images. Please ensure both images are valid.">>),
           NoneImage)

\* Line 223 without the fallback to the input image.
OutputImage_NoEcho(image_output, fridge) == image_output

\* Line 223 with the branches exchanged.
OutputImage_Swapped(image_output, fridge) ==
    IF Truthy(image_output) THEN fridge ELSE image_output

\* Line 223.
OutputImage(image_output, fridge) ==
    IF Truthy(image_output) THEN image_output ELSE fridge

PleaseFridge ==
    Result(Str(<<"Please upload an image of your current fridge state.">>), NoneImage)

PleaseGroceries ==
    Result(Str(<<"Please upload an image of your new groceries.">>), NoneImage)

\* call_ollama posting a second time when the first POST fails.
OllamaCall_Retry(available, base, fridge_b64, groceries_b64, m, raised, e, code, body) ==
    IF ~available
    THEN [res |-> OllamaUnavailable, outcome |-> "unavailable", messages |-> <<>>,
          calls |-> <<>>, status |-> 0, parsed |-> FALSE]
    ELSE LET msgs == OllamaMessages(base, fridge_b64, groceries_b64, m)
         IN  IF raised
             THEN [res |-> OllamaRaised(e), outcome |-> "exception", messages |-> msgs,
                   calls |-> <<"post", "post">>, status |-> 0, parsed |-> FALSE]
             ELSE LET r == OllamaResponse(code, body)
                  IN  [res |-> r.res, outcome |-> r.outcome, messages |-> msgs,
                       calls |-> IF code = 200 THEN <<"post">> ELSE <<"post", "post">>,
                       status |-> code, parsed |-> r.parsed]

\* call_ollama as a whole (lines 94-133): `raised` with error e when
\* requests.post raises, otherwise the response has status `code` and `body`.
OllamaCall(available, base, fridge_b64, groceries_b64, m, raised, e, code, body) ==
    IF ~available
    THEN [res |-> OllamaUnavailable, outcome |-> "unavailable", messages |-> <<>>,
          calls |-> <<>>, status |-> 0, parsed |-> FALSE]
    ELSE LET msgs == OllamaMessages(base, fridge_b64, groceries_b64, m)
         IN  IF raised
             THEN [res |-> OllamaRaised(e), outcome |-> "exception", messages |-> msgs,
                   calls |-> <<"post">>, status |-> 0, parsed |-> FALSE]
             ELSE LET r == OllamaResponse(code, body)
                  IN  [res |-> r.res, outcome |-> r.outcome, messages |-> msgs,
                       calls |-> <<"post">>, status |-> code, parsed |-> r.parsed]

\* call_vllm as a whole (lines 135-178): process_vision_info (called when
\* qwen_available) succeeds or raises, llm.chat returns `outputs` or raises e.
VllmCall(model, qwen_available, base, fridge_b64, groceries_b64, m, vision_ok, raised, e, outputs) ==
    IF model = "None"
    THEN [res |-> VllmNotLoaded, outcome |-> "not_loaded", messages |-> <<>>,
          calls |-> <<>>, temperature |-> "unset"]
    ELSE LET msgs == VllmMessages(base, fridge_b64, groceries_b64, m)
         IN  IF qwen_available /\ ~vision_ok
             THEN [res |-> VllmRaised(e), outcome |-> "exception", messages |-> msgs,
                   calls |-> <<>>, temperature |-> "unset"]
             ELSE IF raised
             THEN [res |-> VllmRaised(e), outcome |-> "exception", messages |-> msgs,
                   calls |-> <<"chat">>, temperature |-> VllmTemperature(m)]
             ELSE LET r == VllmResponse(outputs)
                  IN  [res |-> r.res, outcome |-> r.outcome, messages |-> msgs,
                       calls |-> <<"chat">>, temperature |-> VllmTemperature(m)]

\* Where a return of organize_fridge leads: back into the handler, or to
\* the programmatic caller.
AfterReturn(via) == IF via = "ui" THEN "render" ELSE "done"

\* Line 200: the transport a request goes to.
SelectTransport(flag) == IF flag THEN "call_ollama" ELSE "call_vllm"

----------------------------------------------------------------------------
\* The state machine

Init ==
    /\ VLLM_AVAILABLE \in BOOLEAN
    /\ QWEN_AVAILABLE \in BOOLEAN
    /\ OLLAMA_AVAILABLE \in BOOLEAN
    /\ use_ollama = FALSE
    /\ llm = "None"
    /\ base_prompt = ""
    /\ pc = "boot"
    /\ entry = ""
    /\ current_fridge = NoneImage
    /\ new_groceries = NoneImage
    /\ mode = ""
    /\ current_fridge_b64 = NoneStr
    /\ new_groceries_b64 = NoneStr
    /\ messages = <<>>
    /\ temperature = "unset"
    /\ status_code = 0
    /\ parsed = FALSE
    /\ log = <<>>
    /\ result = NoResult
    /\ ui_result = NoResult
    /\ outcome = "none"
    /\ served = 0

flags == <<VLLM_AVAILABLE, QWEN_AVAILABLE, OLLAMA_AVAILABLE>>

instance == <<use_ollama, llm, base_prompt>>

inputs == <<entry, current_fridge, new_groceries, mode>>

encoded == <<current_fridge_b64, new_groceries_b64>>

remote == <<messages, temperature, status_code, parsed>>

\* master = FridgeTetrisMaster(use_ollama=..., ollama_url=...), lines 48-69
\* (line 207; src/example_usage.py:11).
Construct ==
    /\ pc = "boot"
    /\ \E arg \in BOOLEAN, prompt_exists \in BOOLEAN, load_ok \in BOOLEAN :
         /\ use_ollama' = InitUseOllama(arg, VLLM_AVAILABLE, load_ok)
         /\ llm' = InitLlm(arg, VLLM_AVAILABLE, load_ok)
         /\ base_prompt' = InitBasePrompt(prompt_exists)
    /\ pc' = "idle"
    /\ UNCHANGED <<flags, inputs, encoded, remote, log, result, ui_result, outcome, served>>

\* fridge_master_interface(current_fridge, new_groceries, mode), lines 213-220:
\* the guards, up to the call of organize_fridge.
SubmitUi ==
    /\ pc = "idle"
    /\ served < MaxRequests
    /\ \E f \in InputImages, g \in InputImages, m \in RadioModes :
         /\ entry' = "ui"
         /\ current_fridge' = f
         /\ new_groceries' = g
         /\ mode' = m
         /\ IF IsNone(f)
            THEN ui_result' = PleaseFridge /\ outcome' = "missing" /\ pc' = "done"
            ELSE IF IsNone(g)
            THEN ui_result' = PleaseGroceries /\ outcome' = "missing" /\ pc' = "done"
            ELSE UNCHANGED <<ui_result, outcome>> /\ pc' = "encode_fridge"
    /\ UNCHANGED <<flags, instance, encoded, remote, log, result, served>>

\* master.organize_fridge(current_fridge, new_groceries, mode) called directly
\* (src/example_usage.py:24).
SubmitApi ==
    /\ pc = "idle"
    /\ served < MaxRequests
    /\ \E f \in InputImages, g \in InputImages, m \in Modes :
         /\ entry' = "api"
         /\ current_fridge' = f
         /\ new_groceries' = g
         /\ mode' = m
    /\ pc' = "encode_fridge"
    /\ UNCHANGED <<flags, instance, encoded, remote, log, result, ui_result, outcome, served>>

\* Line 193.
EncodeFridge ==
    /\ pc = "encode_fridge"
    /\ current_fridge_b64' = image_to_base64(current_fridge)
    /\ log' = Append(log, "encode_fridge")
    /\ pc' = "encode_groceries"
    /\ UNCHANGED <<flags, instance, inputs, new_groceries_b64, remote, result,
                   ui_result, outcome, served>>

\* Line 194.
EncodeGroceries ==
    /\ pc = "encode_groceries"
    /\ new_groceries_b64' = image_to_base64(new_groceries)
    /\ log' = Append(log, "encode_groceries")
    /\ pc' = "select"
    /\ UNCHANGED <<flags, instance, inputs, current_fridge_b64, remote, result,
                   ui_result, outcome, served>>

\* Lines 196-203, up to the call of the transport.
Select ==
    /\ pc = "select"
    /\ IF BothEncoded(current_fridge_b64, new_groceries_b64)
       THEN /\ pc' = SelectTransport(use_ollama)
            /\ log' = Append(log, "select")
            /\ UNCHANGED <<result, outcome>>
       ELSE /\ result' = CouldNotProcess
            /\ outcome' = IF IsNone(current_fridge) \/ IsNone(new_groceries)
                          THEN "missing" ELSE "decode"
            /\ pc' = AfterReturn(entry)
            /\ UNCHANGED log
    /\ UNCHANGED <<flags, instance, inputs, encoded, remote, ui_result, served>>

\* Line 201.
CallOllama ==
    /\ pc = "call_ollama"
    /\ \E raised \in BOOLEAN, e \in RemoteErrors, code \in StatusCodes, body \in Bodies :
         LET r == OllamaCall(OLLAMA_AVAILABLE, base_prompt, current_fridge_b64,
                             new_groceries_b64, mode, raised, e, code, body)
         IN  /\ result' = r.res
             /\ outcome' = r.outcome
             /\ messages' = r.messages
             /\ status_code' = r.status
             /\ parsed' = r.parsed
             /\ log' = log \o r.calls
    /\ pc' = AfterReturn(entry)
    /\ UNCHANGED <<flags, instance, inputs, encoded, temperature, ui_result, served>>

\* Line 203.
CallVllm ==
    /\ pc = "call_vllm"
    /\ \E vision_ok \in BOOLEAN, raised \in BOOLEAN, e \in RemoteErrors,
          outputs \in ChatOutputs :
         LET r == VllmCall(llm, QWEN_AVAILABLE, base_prompt, current_fridge_b64,
                           new_groceries_b64, mode, vision_ok, raised, e, outputs)
         IN  /\ result' = r.res
             /\ outcome' = r.outcome
             /\ messages' = r.messages
             /\ temperature' = r.temperature
             /\ log' = log \o r.calls
    /\ pc' = AfterReturn(entry)
    /\ UNCHANGED <<flags, instance, inputs, encoded, status_code, parsed, ui_result, served>>

\* Lines 220-225: the handler's return after organize_fridge.
Render ==
    /\ pc = "render"
    /\ ui_result' = Result(result.text, OutputImage(result.image, current_fridge))
    /\ pc' = "done"
    /\ UNCHANGED <<flags, instance, inputs, encoded, remote, log, result, outcome, served>>

\* The response is delivered; the next request starts from fresh locals.
NextRequest ==
    /\ pc = "done"
    /\ pc' = "idle"
    /\ served' = served + 1
    /\ entry' = ""
    /\ current_fridge' = NoneImage
    /\ new_groceries' = NoneImage
    /\ mode' = ""
    /\ current_fridge_b64' = NoneStr
    /\ new_groceries_b64' = NoneStr
    /\ messages' = <<>>
    /\ temperature' = "unset"
    /\ status_code' = 0
    /\ parsed' = FALSE
    /\ log' = <<>>
    /\ result' = NoResult
    /\ ui_result' = NoResult
    /\ outcome' = "none"
    /\ UNCHANGED <<flags, instance>>

Next ==
    \/ Construct
    \/ SubmitUi
    \/ SubmitApi
    \/ EncodeFridge
    \/ EncodeGroceries
    \/ Select
    \/ CallOllama
    \/ CallVllm
    \/ Render
    \/ NextRequest

Spec == Init /\ [][Next]_vars

----------------------------------------------------------------------------
\* Vocabulary of the properties

\* The request made a remote call: requests.post or llm.chat.
RemoteCalled == \E i \in DOMAIN log : log[i] \in {"post", "chat"}

\* call_ollama or call_vllm was entered, or is about to be.
TransportInvoked ==
    \/ pc \in {"call_ollama", "call_vllm"}
    \/ outcome \in {"unavailable", "not_loaded", "status", "exception", "empty", "ok"}

\* organize_fridge has returned for the request.
Returned ==
    /\ pc \in {"render", "done"}
    /\ (entry = "api" \/ outcome # "missing")

Unencodable(image) == image_to_base64(image).none

ExplanatoryHeads ==
    { "Please upload an image of your current fridge state.",
      "Please upload an image of your new groceries.",
      "Error: Could not process images. Please ensure both images are valid.",
      "Error: Ollama not available. Install requests library.",
      "Error: Ollama API returned status ",
      "Error calling Ollama: ",
      "Error: vLLM model not loaded",
      "Error: No response from model",
      "Error calling vLLM: " }

IsExplanatory(text) ==
    /\ ~text.none
    /\ text.parts # <<>>
    /\ Head(text.parts) \in ExplanatoryHeads

\* What the caller of the request's entry point got.
Response == IF entry = "ui" THEN ui_result ELSE result

Contains(s, sub) ==
    \E i \in 0..(Len(s) - Len(sub)) : SubSeq(s, i + 1, i + Len(sub)) = sub

----------------------------------------------------------------------------
\* C1: a request whose current_fridge or new_groceries is None or cannot be
\* encoded ends with an explanatory string and without entering call_ollama
\* or call_vllm, so without a POST or an llm.chat; whenever a transport is
\* invoked, both images are present and both were encoded.
C1_ShortCircuit ==
    /\ (TransportInvoked \/ RemoteCalled) =>
          /\ ~IsNone(current_fridge) /\ ~IsNone(new_groceries)
          /\ ~Unencodable(current_fridge) /\ ~Unencodable(new_groceries)
          /\ ~current_fridge_b64.none /\ ~new_groceries_b64.none
    /\ (pc = "done" /\ (Unencodable(current_fridge) \/ Unencodable(new_groceries))) =>
          /\ IsExplanatory(Response.text)
          /\ ~RemoteCalled
          /\ messages = <<>>
          /\ outcome \in {"missing", "decode"}

\* A request through the handler whose groceries image is present but
\* cannot be encoded has ended.
C1_Witness ==
    /\ pc = "done"
    /\ entry = "ui"
    /\ current_fridge = PilL
    /\ new_groceries = PilF
    /\ outcome = "decode"

\* The failure paths C2 names.
FailureOutcomes == {"missing", "decode", "status", "exception"}

\* C2 as stated: on every failure path the result of organize_fridge and the
\* result of fridge_master_interface are an explanatory string and None.
C2_AllFailuresNullImage ==
    (pc = "done" /\ outcome \in FailureOutcomes) =>
        /\ Returned => (IsExplanatory(result.text) /\ IsNone(result.image))
        /\ entry = "ui" => (IsExplanatory(ui_result.text) /\ IsNone(ui_result.image))

\* C2, amended: on every failure path organize_fridge returns an explanatory
\* string and None; fridge_master_interface returns the explanatory string
\* with None only for a missing image, and with the original current_fridge
\* on the other failure paths.
C2_FailuresAmended ==
    (pc = "done" /\ outcome \in FailureOutcomes) =>
        /\ Returned => (IsExplanatory(result.text) /\ IsNone(result.image))
        /\ entry = "ui" =>
              /\ IsExplanatory(ui_result.text)
              /\ IF outcome = "missing"
                 THEN IsNone(ui_result.image)
                 ELSE /\ ui_result.image = current_fridge
                      /\ ~IsNone(ui_result.image)
                      /\ ui_result.text = result.text

\* The handler has answered a request whose POST raised.
C2_Witness ==
    /\ pc = "done"
    /\ entry = "ui"
    /\ outcome = "exception"
    /\ use_ollama
    /\ ui_result.image = PilL

\* C3 as stated: after construction use_ollama = FALSE implies the in-process
\* model is loaded, and no request is routed to call_vllm without a model.
C3_FallbackComplete ==
    pc # "boot" =>
        /\ ~use_ollama => llm = "LLM"
        /\ pc = "call_vllm" => llm = "LLM"

\* C4 as stated: every request that reaches a model is sampled at 0.7 in
\* mode "Normal" and 0.9 in mode "Chaos", on either transport.
C4_TemperatureByMode ==
    RemoteCalled =>
        /\ temperature \in {"0.7", "0.9"}
        /\ mode = "Normal" => temperature = "0.7"
        /\ mode = "Chaos" => temperature = "0.9"

\* C5: when the POST is answered with a status other than 200, the text
\* organize_fridge returns (and the handler passes on) contains the status
\* code in decimal, the image organize_fridge returns is None, and
\* response.json() is not called nor model text returned.
C5_StatusSurfaced ==
    (pc \in {"render", "done"} /\ status_code \notin {0, 200}) =>
        /\ ~result.text.none
        /\ Contains(result.text.parts, FormatInt(status_code))
        /\ IsNone(result.image)
        /\ ~parsed
        /\ result.text # Advice
        /\ (pc = "done" /\ entry = "ui") => ui_result.text = result.text

C5_Witness ==
    /\ pc = "done"
    /\ entry = "ui"
    /\ status_code = 404
    /\ result.text.parts = <<"Error: Ollama API returned status ", "4", "0", "4">>

\* C6: for a request through the handler with both images present, the
\* second output is the annotated image when organize_fridge returned one
\* and the original current_fridge otherwise; the first output is the text
\* organize_fridge returned.
C6_EchoOrAnnotated ==
    (pc = "done" /\ entry = "ui" /\ ~IsNone(current_fridge) /\ ~IsNone(new_groceries)) =>
        /\ ui_result.text = result.text
        /\ IF result.image = Annotated
           THEN ui_result.image = Annotated
           ELSE ui_result.image = current_fridge

\* The model answered without an image and the fridge image was echoed.
C6_Witness ==
    /\ pc = "done"
    /\ entry = "ui"
    /\ outcome = "ok"
    /\ IsNone(result.image)
    /\ current_fridge = PathRGB
    /\ ui_result.image = PathRGB

\* The prompt and the images a call_vllm messages list carries.
VllmText(msgs) == msgs[1].content[3].text

VllmImages(msgs) == <<msgs[1].content[1].image.b64, msgs[1].content[2].image.b64>>

C8_RoundTrip ==
    Len(log) >= 1 =>
        LET img == OpenImage(current_fridge)
        IN  /\ current_fridge_b64.none <=>
                  (IsNone(current_fridge) \/ ~img.ok \/ ~PngSave(img).ok)
            /\ ~current_fridge_b64.none =>
                  PngLoad(B64Decode(current_fridge_b64.chars)) = img.px

RequestLog == <<"encode_fridge", "encode_groceries", "select">>

\* The steps of a request so far are in order, with at most one remote
\* call, made to the transport use_ollama names.
LogInOrder ==
    \/ /\ Len(log) <= Len(RequestLog)
       /\ log = SubSeq(RequestLog, 1, Len(log))
    \/ log = RequestLog \o <<IF use_ollama THEN "post" ELSE "chat">>

\* C9: a request encodes both images, then selects the transport, then
\* makes at most one remote call, to the transport use_ollama names; a
\* failed call is not retried or redirected, and no step after construction
\* changes use_ollama or the loaded model.
C9_OrderAndNoRetry ==
    [][/\ LogInOrder'
       /\ pc # "boot" => (use_ollama' = use_ollama /\ llm' = llm)]_vars

\* A request whose POST raised has ended after exactly one POST.
C9_Witness ==
    /\ pc = "done"
    /\ outcome = "exception"
    /\ use_ollama
    /\ log = RequestLog \o <<"post">>
    /\ served = 1

\* C10 as stated: whatever the encoders, the backend choice, the model and
\* the remote do, organize_fridge returns a pair whose text is a string.
C10_TextIsString ==
    Returned => ~result.text.none

====
